---- MODULE Spec2Model ----
(***************************************************************************)
(* Survey submission models (src/models.py): the inbound SurveySubmission, *)
(* validated field by field, and the StoredSurveyRecord derived from it by *)
(* from_submission with the email and the age replaced by SHA-256 digests. *)
(*                                                                         *)
(* Text is kept run-length encoded: a Python str is a sequence of runs     *)
(* [c |-> character, n |-> repetitions] with adjacent runs of different    *)
(* characters, so that strings of 1000 and 1001 characters are ordinary    *)
(* values.  An Optional value is <<>> (None) or <<v>>.  The field          *)
(* validation that pydantic performs for the declared types and Field      *)
(* constraints is modelled by what it does to the value (pydantic 1.x      *)
(* wording of the messages).  SHA-256 is an ideal digest: a 64 character   *)
(* hex string determined by its input, with no collisions.                 *)
(***************************************************************************)
EXTENDS Integers, Sequences, FiniteSets, TLC

VARIABLES clock, pc, raw, sub, errors, madeAt, stored, storedErrors, ret,
          op, assigns, prev

vars == <<clock, pc, raw, sub, errors, madeAt, stored, storedErrors, ret,
          op, assigns, prev>>

\* ------------------------------------------------------------- bounds
\* Half-hour steps the wall clock may advance.
MaxTicks == 3
\* Field assignments made to one instance after its construction.
MaxAssign == 1

\* ------------------------------------------------- program constants
NameMinLen == 1
NameMaxLen == 100
AgeMin == 13
AgeMax == 120
RatingMin == 1
RatingMax == 5
CommentsMaxLen == 1000
\* hashlib.sha256(...).hexdigest() is 64 hex characters
DigestHexLen == 64

\* ------------------------------------------------------------ Optional
None == <<>>
Some(v) == <<v>>
IsNone(o) == o = <<>>
Val(o) == o[1]

\* ---------------------------------------------------------------- text
Run(c, n) == [c |-> c, n |-> n]
Rep(c, n) == IF n = 0 THEN <<>> ELSE <<Run(c, n)>>

\* s + t
Concat(s, t) ==
    IF s = <<>> THEN t
    ELSE IF t = <<>> THEN s
    ELSE IF s[Len(s)].c = t[1].c
         THEN SubSeq(s, 1, Len(s) - 1)
              \o <<Run(t[1].c, s[Len(s)].n + t[1].n)>> \o Tail(t)
         ELSE s \o t

\* The str spelled by a sequence of characters.
RECURSIVE T(_)
T(cs) == IF cs = <<>> THEN <<>> ELSE Concat(Rep(cs[1], 1), T(Tail(cs)))

\* len(s)
RECURSIVE StrLen(_)
StrLen(s) == IF s = <<>> THEN 0 ELSE s[1].n + StrLen(Tail(s))

\* str.isspace for one character
IsSpace(c) == c \in {" ", "\t", "\n"}

RECURSIVE LStrip(_)
LStrip(s) == IF s # <<>> /\ IsSpace(s[1].c) THEN LStrip(Tail(s)) ELSE s

RECURSIVE RStrip(_)
RStrip(s) ==
    IF s # <<>> /\ IsSpace(s[Len(s)].c) THEN RStrip(SubSeq(s, 1, Len(s) - 1)) ELSE s

\* str.strip()
Strip(s) == RStrip(LStrip(s))

\* str.lower() for one character
LowerChar(c) ==
    CASE c = "A" -> "a"
      [] c = "B" -> "b"
      [] c = "I" -> "i"
      [] c = "O" -> "o"
      [] c = "X" -> "x"
      [] OTHER -> c

RECURSIVE Lower(_)
Lower(s) == IF s = <<>> THEN <<>> ELSE Concat(Rep(LowerChar(s[1].c), s[1].n), Lower(Tail(s)))

DigitChar(d) == <<"0", "1", "2", "3", "4", "5", "6", "7", "8", "9">>[d + 1]

\* str(n) for a non-negative int
RECURSIVE NatStr(_)
NatStr(n) ==
    IF n < 10 THEN Rep(DigitChar(n), 1)
    ELSE Concat(NatStr(n \div 10), Rep(DigitChar(n % 10), 1))

\* str(n)
IntStr(n) == IF n < 0 THEN Concat(Rep("-", 1), NatStr(0 - n)) ELSE NatStr(n)

\* n zero-padded to w digits, as strftime pads %Y, %m, %d and %H
ZeroPad(n, w) ==
    LET s == NatStr(n)
    IN IF StrLen(s) >= w THEN s ELSE Concat(Rep("0", w - StrLen(s)), s)

\* ------------------------------------------------------------- digests
\* A str that is either a literal text or the hex digest of a text.
Plain(t) == [hex |-> FALSE, of |-> t]
\* hashlib.sha256(t.encode()).hexdigest()
Sha256Hex(t) == [hex |-> TRUE, of |-> t]
PyLen(v) == IF v.hex THEN DigestHexLen ELSE StrLen(v.of)

\* --------------------------------------------------------------- clock
IsLeap(y) == (y % 4 = 0 /\ y % 100 # 0) \/ y % 400 = 0
DaysIn(y, m) ==
    IF m = 2 THEN (IF IsLeap(y) THEN 29 ELSE 28)
    ELSE IF m \in {4, 6, 9, 11} THEN 30 ELSE 31

Clock0 == [year |-> 2025, month |-> 12, day |-> 31, hour |-> 23, minute |-> 0]

\* The wall clock half an hour later.
HalfHourLater(t) ==
    IF t.minute < 30 THEN [t EXCEPT !.minute = t.minute + 30]
    ELSE IF t.hour < 23 THEN [t EXCEPT !.minute = t.minute - 30, !.hour = t.hour + 1]
    ELSE IF t.day < DaysIn(t.year, t.month)
         THEN [t EXCEPT !.minute = t.minute - 30, !.hour = 0, !.day = t.day + 1]
    ELSE IF t.month < 12
         THEN [t EXCEPT !.minute = t.minute - 30, !.hour = 0, !.day = 1,
                        !.month = t.month + 1]
    ELSE [t EXCEPT !.minute = t.minute - 30, !.hour = 0, !.day = 1, !.month = 1,
                   !.year = t.year + 1]

\* Variant: the bucket is cut at the minute, now.strftime("%Y%m%d%H%M").
date_hour_minute(now) ==
    Concat(Concat(Concat(ZeroPad(now.year, 4), ZeroPad(now.month, 2)),
                  Concat(ZeroPad(now.day, 2), ZeroPad(now.hour, 2))),
           ZeroPad(now.minute, 2))

\* now.strftime("%Y%m%d%H")
date_hour(now) ==
    Concat(Concat(ZeroPad(now.year, 4), ZeroPad(now.month, 2)),
           Concat(ZeroPad(now.day, 2), ZeroPad(now.hour, 2)))

\* --------------------------------------------------- field validation
\* The outcome of validating one field: the value, or the violation's message.
Ok(v) == [ok |-> TRUE, v |-> v, msg |-> ""]
Fail(v, m) == [ok |-> FALSE, v |-> v, msg |-> m]

MsgMissing == "field required"
MsgConsent == "consent must be true"

\* str with Field(min_length=lo, max_length=hi): the raw length is checked.
str_length(s, lo, hi) ==
    IF StrLen(s) < lo THEN Fail(s, "ensure this value has at least min_length characters")
    ELSE IF StrLen(s) > hi THEN Fail(s, "ensure this value has at most max_length characters")
    ELSE Ok(s)

\* Variant: the bounds are exclusive, Field(gt=lo, lt=hi).
int_range_exclusive(n, lo, hi) ==
    IF n <= lo THEN Fail(n, "ensure this value is greater than gt")
    ELSE IF n >= hi THEN Fail(n, "ensure this value is less than lt")
    ELSE Ok(n)

\* int with Field(ge=lo, le=hi)
int_range(n, lo, hi) ==
    IF n < lo THEN Fail(n, "ensure this value is greater than or equal to ge")
    ELSE IF n > hi THEN Fail(n, "ensure this value is less than or equal to le")
    ELSE Ok(n)

\* name: str = Field(..., min_length=1, max_length=100)
validate_name(o) ==
    IF IsNone(o) THEN Fail(<<>>, MsgMissing) ELSE str_length(Val(o), NameMinLen, NameMaxLen)

\* Characters the address grammar admits in the local part and in the domain.
AtomChars == {"a", "b", "i", "o", "x", "A", "B", "I", "O", "X", "0", "1", "-"}

RECURSIVE CountChar(_, _)
CountChar(s, c) ==
    IF s = <<>> THEN 0
    ELSE (IF s[1].c = c THEN s[1].n ELSE 0) + CountChar(Tail(s), c)

\* Dot-separated atoms: no empty atom, only admitted characters.
DotAtoms(s) ==
    /\ s # <<>>
    /\ s[1].c # "."
    /\ s[Len(s)].c # "."
    /\ \A i \in 1..Len(s) : IF s[i].c = "." THEN s[i].n = 1 ELSE s[i].c \in AtomChars

AtIndex(s) == CHOOSE i \in 1..Len(s) : s[i].c = "@"
LocalPart(s) == SubSeq(s, 1, AtIndex(s) - 1)
DomainPart(s) == SubSeq(s, AtIndex(s) + 1, Len(s))

\* The syntax check EmailStr applies to the stripped value.
EmailSyntaxOk(s) ==
    /\ CountChar(s, "@") = 1
    /\ DotAtoms(LocalPart(s))
    /\ DotAtoms(DomainPart(s))
    /\ CountChar(DomainPart(s), ".") >= 1

\* The value EmailStr keeps: the local part as given, the domain lower-cased.
NormalizeEmail(s) ==
    Concat(Concat(LocalPart(s), Rep("@", 1)), Lower(DomainPart(s)))

\* email: EmailStr
validate_email(o) ==
    IF IsNone(o) THEN Fail(<<>>, MsgMissing)
    ELSE LET e == Strip(Val(o))
         IN IF EmailSyntaxOk(e) THEN Ok(NormalizeEmail(e))
            ELSE Fail(<<>>, "value is not a valid email address")

\* age: int = Field(..., ge=13, le=120)
validate_age(o) ==
    IF IsNone(o) THEN Fail(0, MsgMissing) ELSE int_range(Val(o), AgeMin, AgeMax)

\* rating: int = Field(..., ge=1, le=5)
validate_rating(o) ==
    IF IsNone(o) THEN Fail(0, MsgMissing) ELSE int_range(Val(o), RatingMin, RatingMax)

\* Raw consent values, by their Python literal.
PyTrue == "True"
PyFalse == "False"
PyOne == "1"
PyYes == "'yes'"
PyZero == "0"
PyMaybe == "'maybe'"

\* The bool field's parsing of the raw value, before any @validator runs.
bool_parse(p) ==
    IF p \in {PyTrue, PyOne, PyYes} THEN Ok(TRUE)
    ELSE IF p \in {PyFalse, PyZero} THEN Ok(FALSE)
    ELSE Fail(FALSE, "value could not be parsed to a boolean")

\* Variant: the validator lets every parsed value pass.
must_consent_lenient(v) == Ok(v)

\* @validator("consent") _must_consent
must_consent(v) == IF v # TRUE THEN Fail(v, MsgConsent) ELSE Ok(v)

\* consent: bool = Field(...), then _must_consent on the parsed value
validate_consent(o) ==
    IF IsNone(o) THEN Fail(FALSE, MsgMissing)
    ELSE LET b == bool_parse(Val(o))
         IN IF b.ok THEN must_consent(b.v) ELSE b

\* Variant: only leading whitespace is removed, v.lstrip().
lstrip_comments(o) == IF IsNone(o) THEN o ELSE Some(LStrip(Val(o)))

\* @validator("comments") _strip_comments
strip_comments(o) == IF IsNone(o) THEN o ELSE Some(Strip(Val(o)))

\* comments: Optional[str] = Field(None, max_length=1000), then _strip_comments
validate_comments(o) ==
    IF IsNone(o) THEN Ok(None)
    ELSE LET r == str_length(Val(o), 0, CommentsMaxLen)
         IN IF r.ok THEN Ok(strip_comments(Some(r.v))) ELSE Fail(None, r.msg)

\* Variant: the identifier is never derived.
keep_submission_id(v, email, now) == v

\* @validator("submission_id", always=True) _generate_submission_id of
\* SurveySubmission: v is the supplied id, email the validated email if any.
generate_submission_id(v, email, now) ==
    IF IsNone(v) /\ ~IsNone(email) /\ Val(email) # <<>>
    THEN Some(Sha256Hex(Concat(Val(email), date_hour(now))))
    ELSE v

\* One (field, message) entry if the field's validation failed.
ErrorOf(f, r) == IF r.ok THEN <<>> ELSE <<[loc |-> f, msg |-> r.msg]>>

\* Variant: validation stops at the first violation.
first_error_only(errs) == IF errs = <<>> THEN <<>> ELSE <<errs[1]>>

\* The errors of all fields are collected into one ValidationError.
collect_errors(errs) == errs

\* SurveySubmission(**fields) at wall-clock time now: the instance, or the
\* ValidationError's entries in field order.
SurveySubmission(f, now) ==
    LET n == validate_name(f.name)
        e == validate_email(f.email)
        a == validate_age(f.age)
        c == validate_consent(f.consent)
        r == validate_rating(f.rating)
        m == validate_comments(f.comments)
        sid == generate_submission_id(
                   IF IsNone(f.submission_id) THEN None
                   ELSE Some(Plain(Val(f.submission_id))),
                   IF e.ok THEN Some(e.v) ELSE None, now)
        errs == collect_errors(ErrorOf("name", n) \o ErrorOf("email", e)
                  \o ErrorOf("age", a) \o ErrorOf("consent", c)
                  \o ErrorOf("rating", r) \o ErrorOf("comments", m))
    IN IF errs # <<>> THEN [errors |-> errs, obj |-> None]
       ELSE [errors |-> <<>>,
             obj |-> Some([name |-> n.v, email |-> e.v, age |-> a.v,
                           consent |-> c.v, rating |-> r.v, comments |-> m.v,
                           user_agent |-> f.user_agent, submission_id |-> sid])]

\* Variant: the email is handed on as it is.
get_plain_email(s) == Plain(s.email)

\* SurveySubmission.get_hashed_email
get_hashed_email(s) == Sha256Hex(s.email)

\* SurveySubmission.get_hashed_age
get_hashed_age(s) == Sha256Hex(IntStr(s.age))

\* Variant: an unset identifier is filled in by the stored record.
stored_derive_submission_id(v) == IF IsNone(v) THEN Some(Sha256Hex(<<>>)) ELSE v

\* @validator("submission_id", always=True) of StoredSurveyRecord: inert.
stored_generate_submission_id(v) == v

\* StoredSurveyRecord(**fields): the second validation pass.
StoredSurveyRecord(f) ==
    LET n == str_length(f.name, NameMinLen, NameMaxLen)
        c == must_consent(f.consent)
        r == int_range(f.rating, RatingMin, RatingMax)
        m == validate_comments(f.comments)
        errs == collect_errors(ErrorOf("name", n) \o ErrorOf("consent", c)
                  \o ErrorOf("rating", r) \o ErrorOf("comments", m))
    IN IF errs # <<>> THEN [errors |-> errs, obj |-> None]
       ELSE [errors |-> <<>>,
             obj |-> Some([name |-> n.v, consent |-> c.v, rating |-> r.v,
                           comments |-> m.v, user_agent |-> f.user_agent,
                           submission_id |-> stored_generate_submission_id(f.submission_id),
                           received_at |-> f.received_at, ip |-> f.ip,
                           hashed_email |-> f.hashed_email,
                           hashed_age |-> f.hashed_age])]

\* Variant: the age is passed where the rating belongs.
from_submission_age_as_rating(s, received_at, ip) ==
    StoredSurveyRecord([name |-> s.name, consent |-> s.consent, rating |-> s.age,
                        comments |-> s.comments, user_agent |-> s.user_agent,
                        submission_id |-> s.submission_id,
                        received_at |-> received_at, ip |-> ip,
                        hashed_email |-> get_hashed_email(s),
                        hashed_age |-> get_hashed_age(s)])

\* StoredSurveyRecord.from_submission(submission, received_at, ip)
from_submission(s, received_at, ip) ==
    StoredSurveyRecord([name |-> s.name, consent |-> s.consent, rating |-> s.rating,
                        comments |-> s.comments, user_agent |-> s.user_agent,
                        submission_id |-> s.submission_id,
                        received_at |-> received_at, ip |-> ip,
                        hashed_email |-> get_hashed_email(s),
                        hashed_age |-> get_hashed_age(s)])

\* -------------------------------------------------------------- inputs
Hello == T(<<"h", "e", "l", "l", "o">>)

NameInputs == {Some(Rep("N", 1)), Some(Rep("N", NameMaxLen)), Some(<<>>),
               Some(Rep("N", NameMaxLen + 1)), None}

EmailA == T(<<"a", "@", "x", ".", "i", "o">>)
EmailAUpper == T(<<"a", "@", "X", ".", "I", "O">>)
EmailB == T(<<"b", "@", "x", ".", "i", "o">>)
EmailNoAt == T(<<"a", "x", ".", "i", "o">>)
EmailNoDot == T(<<"a", "@", "x", "i", "o">>)
EmailInputs == {Some(EmailA), Some(EmailAUpper), Some(EmailB), Some(EmailNoAt),
                Some(EmailNoDot), None}

AgeInputs == {Some(AgeMin), Some(AgeMax), Some(AgeMin - 1), Some(AgeMax + 1), None}

ConsentInputs == {Some(PyTrue), Some(PyFalse), Some(PyOne), Some(PyYes), Some(PyZero),
                  Some(PyMaybe), None}

RatingInputs == {Some(RatingMin), Some(RatingMax), Some(RatingMin - 1),
                 Some(RatingMax + 1), None}

CommentsInputs ==
    {None,
     Some(Concat(Rep(" ", 2), Concat(Hello, Rep(" ", 2)))),
     Some(Concat(Rep("\t", 1), Concat(Rep(" ", 1), Concat(Hello, Rep("\n", 1))))),
     Some(Rep(" ", 3)),
     Some(Rep("c", CommentsMaxLen)),
     Some(Rep("c", CommentsMaxLen + 1)),
     Some(Concat(Rep(" ", 1), Rep("c", CommentsMaxLen)))}

UserAgentInputs == {None, Some(T(<<"U", "A">>))}

GivenId == T(<<"i", "d", "-", "1">>)
SubmissionIdInputs == {None, Some(GivenId)}

Fields == {"name", "email", "age", "consent", "rating", "comments",
           "user_agent", "submission_id"}

\* A submission every field of which is valid.
BaseInput ==
    [name |-> Some(Rep("N", 1)), email |-> Some(EmailA), age |-> Some(AgeMin),
     consent |-> Some(PyTrue), rating |-> Some(RatingMin), comments |-> None,
     user_agent |-> None, submission_id |-> None]

\* The same with every validated field violating its rule.
BadInput ==
    [name |-> Some(<<>>), email |-> Some(EmailNoAt), age |-> Some(AgeMin - 1),
     consent |-> Some(PyFalse), rating |-> Some(RatingMax + 1),
     comments |-> Some(Rep("c", CommentsMaxLen + 1)),
     user_agent |-> Some(T(<<"U", "A">>)), submission_id |-> Some(GivenId)]

AllInputs ==
    [name : NameInputs, email : EmailInputs, age : AgeInputs,
     consent : ConsentInputs, rating : RatingInputs, comments : CommentsInputs,
     user_agent : UserAgentInputs, submission_id : SubmissionIdInputs]

\* The raw inputs tried: every good/bad combination of the fields, and every
\* input that differs from the baseline in one field, over all its values.
RawInputs ==
    {f \in AllInputs :
        \/ \A k \in Fields : f[k] \in {BaseInput[k], BadInput[k]}
        \/ \E k \in Fields : \A j \in Fields \ {k} : f[j] = BaseInput[j]}

\* The raw inputs of the two-request runs: valid submissions that differ in
\* their email, their age and in fields the identifier must not depend on.
PairInputs ==
    {f \in AllInputs :
        /\ f.name = Some(Rep("N", 1))
        /\ f.email \in {Some(EmailA), Some(EmailAUpper), Some(EmailB)}
        /\ f.age \in {Some(AgeMin), Some(AgeMax)}
        /\ f.consent = Some(PyTrue)
        /\ f.rating \in {Some(RatingMin), Some(RatingMax)}
        /\ f.comments = None
        /\ f.user_agent = None}

ReceivedAtInputs == {[Clock0 EXCEPT !.year = 1999]}
IpInputs == {"203.0.113.9", ""}

\* Values a caller may assign to a field of an existing instance.
AssignInputs ==
    {<<"name", <<>>>>, <<"email", EmailB>>, <<"age", 7>>, <<"consent", FALSE>>,
     <<"rating", 9>>, <<"comments", Some(Concat(Rep(" ", 1), Hello))>>,
     <<"submission_id", None>>, <<"submission_id", Some(Plain(Hello))>>}

\* --------------------------------------------------------------- state
\* clock         the wall clock datetime.now() reads
\* pc            "idle" (no instance), "built" (construction returned an
\*               instance), "rejected" (construction raised ValidationError)
\* raw           the raw fields of the current construction
\* sub           the SurveySubmission instance
\* errors        the entries of the construction's ValidationError
\* madeAt        the clock when the instance was constructed
\* stored        the StoredSurveyRecord returned, if the last call on the
\*               instance was from_submission
\* storedErrors  the entries of the ValidationError that call raised
\* ret           the digest returned, if the last call was get_hashed_*
\* op            the last operation on the instance
\* assigns       field assignments made to the instance since construction
\* prev          what is remembered of the previous request

RECURSIVE ClockAfter(_)
ClockAfter(k) == IF k = 0 THEN Clock0 ELSE HalfHourLater(ClockAfter(k - 1))

NoOp == [name |-> "none", field |-> ""]

Init ==
    /\ clock = Clock0
    /\ pc = "idle"
    /\ raw = None
    /\ sub = None
    /\ errors = <<>>
    /\ madeAt = None
    /\ stored = None
    /\ storedErrors = <<>>
    /\ ret = None
    /\ op = NoOp
    /\ assigns = 0
    /\ prev = None

\* Time passes.
Tick ==
    /\ clock \in {ClockAfter(k) : k \in 0..(MaxTicks - 1)}
    /\ clock' = HalfHourLater(clock)
    /\ UNCHANGED <<pc, raw, sub, errors, madeAt, stored, storedErrors, ret, op,
                   assigns, prev>>

\* SurveySubmission(**f)
Construct(f) ==
    /\ pc = "idle"
    /\ LET res == SurveySubmission(f, clock)
       IN /\ sub' = res.obj
          /\ errors' = res.errors
          /\ pc' = IF IsNone(res.obj) THEN "rejected" ELSE "built"
    /\ raw' = Some(f)
    /\ madeAt' = Some(clock)
    /\ stored' = None
    /\ storedErrors' = <<>>
    /\ ret' = None
    /\ op' = [name |-> "construct", field |-> ""]
    /\ assigns' = 0
    /\ UNCHANGED <<clock, prev>>

ConstructAny == \E f \in RawInputs : Construct(f)

ConstructPair == \E f \in PairInputs : Construct(f)

\* Variant: assigning the email derives the identifier anew.
assign_field_rederiving(s, k, v) ==
    IF k = "email" THEN [s EXCEPT ![k] = v, !.submission_id = Some(Sha256Hex(v))]
    ELSE [s EXCEPT ![k] = v]

\* submission.<field> = value: plain attribute assignment, not validated.
assign_field(s, k, v) == [s EXCEPT ![k] = v]

Assign ==
    /\ pc = "built"
    /\ assigns < MaxAssign
    /\ \E a \in AssignInputs :
          /\ sub' = Some(assign_field(Val(sub), a[1], a[2]))
          /\ op' = [name |-> "assign", field |-> a[1]]
    /\ assigns' = assigns + 1
    /\ stored' = None
    /\ storedErrors' = <<>>
    /\ ret' = None
    /\ UNCHANGED <<clock, pc, raw, errors, madeAt, prev>>

\* submission.get_hashed_email()
GetHashedEmail ==
    /\ pc = "built"
    /\ ret' = Some(get_hashed_email(Val(sub)))
    /\ stored' = None
    /\ storedErrors' = <<>>
    /\ op' = [name |-> "get_hashed_email", field |-> ""]
    /\ UNCHANGED <<clock, pc, raw, sub, errors, madeAt, assigns, prev>>

\* submission.get_hashed_age()
GetHashedAge ==
    /\ pc = "built"
    /\ ret' = Some(get_hashed_age(Val(sub)))
    /\ stored' = None
    /\ storedErrors' = <<>>
    /\ op' = [name |-> "get_hashed_age", field |-> ""]
    /\ UNCHANGED <<clock, pc, raw, sub, errors, madeAt, assigns, prev>>

\* StoredSurveyRecord.from_submission(submission, received_at, ip)
FromSubmission ==
    /\ pc = "built"
    /\ \E received_at \in ReceivedAtInputs \cup {clock}, ip \in IpInputs :
          LET res == from_submission(Val(sub), received_at, ip)
          IN /\ stored' = res.obj
             /\ storedErrors' = res.errors
    /\ ret' = None
    /\ op' = [name |-> "from_submission", field |-> ""]
    /\ UNCHANGED <<clock, pc, raw, sub, errors, madeAt, assigns, prev>>

\* The request is over: the instance and its record are dropped.
Forget ==
    /\ pc' = "idle"
    /\ raw' = None
    /\ sub' = None
    /\ errors' = <<>>
    /\ madeAt' = None
    /\ stored' = None
    /\ storedErrors' = <<>>
    /\ ret' = None
    /\ op' = NoOp
    /\ assigns' = 0

Release ==
    /\ pc # "idle"
    /\ Forget
    /\ UNCHANGED <<clock, prev>>

\* The request is over and the next one begins; what the finished request
\* produced is remembered for comparison.
NextRequest ==
    /\ pc = "built"
    /\ prev' = Some([email |-> Val(sub).email,
                     age |-> Val(sub).age,
                     supplied |-> Val(raw).submission_id,
                     madeAt |-> Val(madeAt),
                     submission_id |-> Val(sub).submission_id,
                     stored |-> IF IsNone(stored) THEN None
                                ELSE Some([hashed_email |-> Val(stored).hashed_email,
                                           hashed_age |-> Val(stored).hashed_age])])
    /\ Forget
    /\ UNCHANGED clock

\* One request at a time, over every raw input.
Next ==
    \/ Tick
    \/ ConstructAny
    \/ Assign
    \/ GetHashedEmail
    \/ GetHashedAge
    \/ FromSubmission
    \/ Release

Spec == Init /\ [][Next]_vars

\* Successive valid requests, each compared with the one before it.
NextPair ==
    \/ Tick
    \/ ConstructPair
    \/ GetHashedEmail
    \/ GetHashedAge
    \/ FromSubmission
    \/ NextRequest

SpecPair == Init /\ [][NextPair]_vars

\* ------------------------------------------------------------ properties
Inst == Val(sub)
In == Val(raw)
Constructed == pc \in {"built", "rejected"}
\* The instance is as construction returned it.
Pristine == pc = "built" /\ assigns = 0

ValidatedFields == {"name", "email", "age", "consent", "rating", "comments"}

\* The declared rule of each field, stated on the raw value.
FieldOk(k, f) ==
    CASE k = "name" ->
            /\ f.name # None
            /\ StrLen(Val(f.name)) >= 1
            /\ StrLen(Val(f.name)) <= 100
      [] k = "email" -> f.email \in {Some(EmailA), Some(EmailAUpper), Some(EmailB)}
      [] k = "age" -> f.age # None /\ Val(f.age) \in 13..120
      [] k = "consent" -> f.consent \in {Some(PyTrue), Some(PyOne), Some(PyYes)}
      [] k = "rating" -> f.rating # None /\ Val(f.rating) \in 1..5
      [] k = "comments" -> f.comments = None \/ StrLen(Val(f.comments)) <= 1000

Violated(f) == {k \in ValidatedFields : ~FieldOk(k, f)}

\* C2: a failed construction reports every violated field exactly once and
\* no field that satisfies its rule.
C2_AllViolationsReported ==
    pc = "rejected" =>
        /\ Violated(In) # {}
        /\ {errors[i].loc : i \in 1..Len(errors)} = Violated(In)
        /\ Len(errors) = Cardinality(Violated(In))

C2_Witness ==
    /\ pc = "rejected"
    /\ Violated(In) = ValidatedFields
    /\ Len(errors) = 6

\* C3: whenever consent is anything but the boolean true, construction fails
\* with a "consent must be true" violation on consent.
C3_OnlyExactTrueConsents ==
    (Constructed /\ In.consent # Some(PyTrue)) =>
        /\ pc = "rejected"
        /\ \E i \in 1..Len(errors) :
              errors[i] = [loc |-> "consent", msg |-> "consent must be true"]

HasError(f, m) == \E i \in 1..Len(errors) : errors[i] = [loc |-> f, msg |-> m]

\* C3 as amended: construction succeeds only when consent is true or a value
\* the bool field reads as true; a false value (or one read as false) fails
\* with "consent must be true", an absent one with "field required" and an
\* unreadable one with the bool field's own violation, all on consent.
C3_OnlyTruthyConsents ==
    Constructed =>
        /\ pc = "built" => In.consent \in {Some(PyTrue), Some(PyOne), Some(PyYes)}
        /\ In.consent \in {Some(PyFalse), Some(PyZero)} =>
              HasError("consent", "consent must be true")
        /\ In.consent = None => HasError("consent", "field required")
        /\ In.consent = Some(PyMaybe) =>
              HasError("consent", "value could not be parsed to a boolean")

C3_Witness ==
    /\ pc = "rejected"
    /\ In.consent = Some(PyFalse)
    /\ errors = <<[loc |-> "consent", msg |-> "consent must be true"]>>

\* C4: construction succeeds exactly when every field is within its declared
\* bound, and then every field of the instance is within its bound.
C4_SucceedsIffWithinBounds ==
    /\ Constructed => (pc = "built" <=> Violated(In) = {})
    /\ Pristine =>
          /\ StrLen(Inst.name) \in 1..100
          /\ Inst.age \in 13..120
          /\ Inst.consent = TRUE
          /\ Inst.rating \in 1..5
          /\ Inst.comments = None \/ StrLen(Val(Inst.comments)) <= 1000

C4_Witness ==
    /\ Pristine
    /\ In.age = Some(120)
    /\ Inst.age = 120

C7_FromSubmissionNeverFails ==
    (Pristine /\ op.name = "from_submission") =>
        /\ stored # None
        /\ storedErrors = <<>>

C7_Witness ==
    /\ Pristine
    /\ op.name = "from_submission"
    /\ stored # None
    /\ In.comments = Some(Rep("c", 1000))
    /\ Val(stored).comments = Some(Rep("c", 1000))

\* s is t without its leading and trailing whitespace.
IsStripOf(s, t) ==
    /\ s = <<>> \/ (~IsSpace(s[1].c) /\ ~IsSpace(s[Len(s)].c))
    /\ \E i \in 0..Len(t) : \E j \in i..Len(t) :
          /\ SubSeq(t, i + 1, j) = s
          /\ \A k \in (1..i) \cup ((j + 1)..Len(t)) : IsSpace(t[k].c)

\* C8: the instance's comments are the supplied comments stripped ("  hello  "
\* gives "hello"), absent comments stay absent, and the second pass of
\* from_submission leaves them as they are.
C8_CommentsStripped ==
    /\ Pristine =>
          /\ In.comments = None <=> Inst.comments = None
          /\ In.comments # None => IsStripOf(Val(Inst.comments), Val(In.comments))
          /\ In.comments = Some(<<Run(" ", 2)>> \o Hello \o <<Run(" ", 2)>>) =>
                Inst.comments = Some(Hello)
    /\ (Pristine /\ stored # None) => Val(stored).comments = Inst.comments

C8_Witness ==
    /\ Pristine
    /\ In.comments = Some(<<Run(" ", 2)>> \o Hello \o <<Run(" ", 2)>>)
    /\ Inst.comments = Some(Hello)
    /\ stored # None

SameInstance == pc = "built" /\ pc' = "built"

\* C9: no operation on an instance changes its submission_id.
C9_SubmissionIdImmutable ==
    [][SameInstance => Val(sub').submission_id = Inst.submission_id]_vars

\* C9 as amended: no operation other than an assignment to submission_id
\* itself changes the instance's submission_id.
C9_ChangedOnlyByItsAssignment ==
    [][(SameInstance /\ ~(assigns' = assigns + 1 /\ op'.field = "submission_id"))
          => Val(sub').submission_id = Inst.submission_id]_vars

C9_Witness ==
    /\ pc = "built"
    /\ op = [name |-> "assign", field |-> "email"]
    /\ In.email = Some(EmailA)
    /\ Inst.email = EmailB
    /\ In.submission_id = None
    /\ Inst.submission_id # None
    /\ Val(Inst.submission_id).of[1].c = "a"

\* C10: a constructed instance has a submission_id, and so has the record
\* from_submission makes of it.
C10_SubmissionIdSet ==
    /\ Pristine => Inst.submission_id # None
    /\ (Pristine /\ stored # None) => Val(stored).submission_id # None

C10_Witness ==
    /\ Pristine
    /\ In.submission_id = None
    /\ stored # None
    /\ Val(Val(stored).submission_id).hex

SameHour(t, u) ==
    /\ t.year = u.year
    /\ t.month = u.month
    /\ t.day = u.day
    /\ t.hour = u.hour

\* Both the previous and the current request derived their identifier.
BothDerived ==
    /\ pc = "built"
    /\ prev # None
    /\ In.submission_id = None
    /\ Val(prev).supplied = None

\* C5: derived identifiers of the same email agree when derived within the
\* same calendar hour and differ when derived in different hours.
C5_IdByEmailAndHour ==
    (BothDerived /\ Val(prev).email = Inst.email) =>
        (Val(prev).submission_id = Inst.submission_id
            <=> SameHour(Val(prev).madeAt, Val(madeAt)))

C5_Witness ==
    /\ BothDerived
    /\ Val(prev).email = Inst.email
    /\ SameHour(Val(prev).madeAt, Val(madeAt))
    /\ Val(prev).madeAt.minute # Val(madeAt).minute
    /\ Val(prev).age # Inst.age
    /\ Val(prev).submission_id = Inst.submission_id

\* str(age) for the ages submitted.
DecimalOf(n) ==
    CASE n = 13 -> <<Run("1", 1), Run("3", 1)>>
      [] n = 120 -> <<Run("1", 1), Run("2", 1), Run("0", 1)>>

\* C1: a stored record has no email and no age field; hashed_email and
\* hashed_age are the 64 character hex digests of the submission's email and
\* of the decimal string of its age; equal inputs give equal digests and
\* different inputs different ones.
C1_OnlyDigestsStored ==
    (pc = "built" /\ stored # None) =>
        LET r == Val(stored)
        IN /\ DOMAIN r \cap {"email", "age"} = {}
           /\ r.hashed_email.hex /\ PyLen(r.hashed_email) = 64
           /\ r.hashed_age.hex /\ PyLen(r.hashed_age) = 64
           /\ r.hashed_email.of = Inst.email
           /\ r.hashed_age.of = DecimalOf(Inst.age)
           /\ (prev # None /\ Val(prev).stored # None) =>
                 /\ Val(Val(prev).stored).hashed_email = r.hashed_email
                       <=> Val(prev).email = Inst.email
                 /\ Val(Val(prev).stored).hashed_age = r.hashed_age
                       <=> Val(prev).age = Inst.age

C1_Witness ==
    /\ pc = "built"
    /\ stored # None
    /\ prev # None
    /\ Val(prev).stored # None
    /\ Val(prev).email # Inst.email
    /\ Val(prev).age = Inst.age
    /\ Val(Val(prev).stored).hashed_email # Val(stored).hashed_email
    /\ Val(Val(prev).stored).hashed_age = Val(stored).hashed_age

====
